---- MODULE Spec2Model ----
(***************************************************************************)
(* The two crawlers of the repository as one state machine:                *)
(*   crawler = "run"      DocumentationCrawler         (src/run.py)        *)
(*   crawler = "private"  PrivateDocumentationCrawler  (src/run-private.py)*)
(* A behaviour is a sequence of process runs over one output directory:    *)
(* each run constructs the crawler (loading the state file), seeds the     *)
(* queue, drains batches and fetches; a run ends by leaving the loop, by   *)
(* an exception that leaves crawl(), or by a crash of the process.         *)
(* URLs are the normalized URLs under the base URL, numbered 1..NumUrls;   *)
(* the fetch capability (crawler.arun) is an input: every attempt returns  *)
(* a result with a set of normalized links, or raises.                     *)
(* Spec leaves every fetch free; SpecSite fixes one site for all the runs  *)
(* of a behaviour; SpecPrivateLive is run-private.py with its scheduling.  *)
(***************************************************************************)
EXTENDS Integers, Sequences, FiniteSets, TLC

\* ---- bounds -------------------------------------------------------------
NumUrls == 3
MaxWorkers == 2
MaxDepthLimit == 2
MaxRuns == 2
MaxSaveErrors == 1
MaxSiteRuns == 3

\* ---- program constants --------------------------------------------------
max_retries == 3
retry_delay == 2

URLs == 1..NumUrls
\* one URL more, for the runs that need a third level of links
DeepUrls == 1..(NumUrls + 1)
base_url == CHOOSE u \in URLs : \A w \in URLs : u <= w
\* the base URL without its fragment, when the argument has one
bare_base_url == base_url + 1

VARIABLES
  crawler,       \* which script runs in this output directory
  resume,        \* self.resume of the current run
  max_workers,   \* self.max_workers of the current run
  max_depth,     \* self.max_depth of the current run (run-private.py only)
  visited_urls,  \* self.visited_urls
  queue,         \* self.queue, in insertion order
  batch,         \* the batch drained by the current loop iteration
  task,          \* per batch entry: "ready", "fetching", "done" or "raised"
  attempt,       \* loop variable of the retry loop, 0 outside process_url
  slept,         \* the back-off delays slept by the current retry loop
  last,          \* how the latest crawler.arun of process_url failed: ErrorKind
  state_file,    \* the tokens of crawler_state.json on disk, or NoFile
  written,       \* URLs whose document this run has written
  written_prev,  \* URLs whose document the previous, crashed run had written
  fetch_count,   \* per URL, the dispatches for fetching in this run
  save_errors,   \* calls of _save_state of this run that raised inside
  loaded,        \* whether _load_state of this run read a complete state file
  phase,         \* position of the process
  abort_cause,   \* what raised out of crawl(), "none" if nothing did
  runs,          \* number of runs started so far
  site,          \* the web site and configuration of every run, if fixed
  reference,     \* <<visited set>> a run from the seed ended with, else <<>>
  snapshot,      \* <<visited, queue>> the current run loaded, else <<>>
  final,         \* <<visited set>> the current run ended with, else <<>>
  saved,         \* whether _save_state has been called since the latest batch
                 \* was drained or, if an exception ended the loop, since then
  last_save,     \* how the latest _save_state call of this run went, "none" before it
  after_clean,   \* whether this run resumed after a run that ended by the empty
                 \* queue with its latest save written
  abandoned,     \* URLs whose fetch run-private.py gave up, in this run and
                 \* in the runs it resumes
  page,          \* the crawler's URL settings and the URL of a fetched page
  extracted,     \* <<href, what _normalize_url made of it>> for an anchor of
                 \* the page, else <<>>
  rewritten,     \* <<target, what _process_markdown_links made of it>> for a
                 \* markdown link of the page, else <<>>
  stored         \* <<url, the file name _get_filename gave it>> for the
                 \* document of the page, else <<>>

config == <<crawler, resume, max_workers, max_depth>>
memory == <<visited_urls, queue, batch, task, attempt, slept, last>>
disk == <<state_file, written, written_prev>>
control == <<phase, abort_cause, runs, fetch_count, save_errors, loaded, saved>>
scenario == <<site, reference, snapshot, final>>
history == <<abandoned, last_save, after_clean>>
content == <<page, extracted, rewritten, stored>>
vars == <<config, memory, disk, control, scenario, history, content>>

\* ---- the site -----------------------------------------------------------

\* What the runs crawl. A site that is not fixed leaves every fetch free:
\* each crawler.arun may produce any outcome and any links. A fixed site
\* gives every run the same pages: links[u] is what _extract_links returns
\* for page u, crawler.arun raises on the URLs in raises and returns a page
\* on the others; the runs are started with the same max_workers and
\* max_depth.
AnySite ==
  [fixed |-> FALSE, links |-> [u \in URLs |-> {}], raises |-> {}, workers |-> 0,
   depth |-> 0, urls |-> URLs, fragment |-> FALSE]

\* The same over the larger set of URLs.
DeepSite == [AnySite EXCEPT !.urls = DeepUrls]

\* The same, crawled from a base URL argument that ends in a fragment
\* (https://h/d#f): base_url is the argument, bare_base_url the page.
FragmentSite == [AnySite EXCEPT !.fragment = TRUE]

\* run.py marks url.split('#')[0]; run-private.py marks the URL as it is.
\* Only the base URL argument can have a fragment: links are normalized.
FreeSites(c) == IF c = "run" THEN {AnySite, FragmentSite} ELSE {AnySite}

\* url.split('#')[0]
WithoutFragment(u) == IF site.fragment /\ u = base_url THEN bare_base_url ELSE u

\* The URLs _normalize_url can return: none with a fragment.
Linkable == IF site.fragment THEN site.urls \ {base_url} ELSE site.urls

\* A page links to any URLs but itself and the base URL (both are visited
\* or queued before the page is fetched, so such links are never queued).
SiteLinks ==
  {l \in [URLs -> SUBSET (URLs \ {base_url})] : \A u \in URLs : u \notin l[u]}

Sites ==
  {[fixed |-> TRUE, links |-> l, raises |-> r, workers |-> w, depth |-> d,
    urls |-> URLs, fragment |-> FALSE] :
     l \in SiteLinks, r \in SUBSET (URLs \ {base_url}), w \in 0..MaxWorkers,
     d \in 0..MaxDepthLimit}

\* History is kept for the runs over a fixed site only.
Note(x) == IF site.fixed THEN x ELSE <<>>

\* ---- the frontier -------------------------------------------------------

\* A queue entry: run.py queues the URL alone, run-private.py maps it to
\* its depth.
Entry(u, d) == IF crawler = "run" THEN [url |-> u] ELSE [url |-> u, depth |-> d]

QueueUrls(q) == {q[i].url : i \in 1..Len(q)}

\* self.queue.pop(url, None)
RemoveUrl(q, u) == SelectSeq(q, LAMBDA e : e.url # u)

\* The orders in which Python may iterate the set new_urls.
Orders(S) ==
  {f \in [1..Cardinality(S) -> S] : \A i, j \in 1..Cardinality(S) : i # j => f[i] # f[j]}

\* if new_url not in self.visited_urls and new_url not in self.queue
ShouldEnqueue(u, v, q) == u \notin v /\ u \notin QueueUrls(q)

\* a frontier that puts the newest link first (depth-first)
RECURSIVE EnqueueInFront(_, _, _, _)
EnqueueInFront(q, v, new_urls, d) ==
  IF new_urls = <<>> THEN q
  ELSE EnqueueInFront(IF ShouldEnqueue(Head(new_urls), v, q)
                        THEN <<Entry(Head(new_urls), d)>> \o q ELSE q,
                      v, Tail(new_urls), d)

\* for new_url in new_urls: ... self.queue.append / self.queue[new_url] = depth + 1
RECURSIVE Enqueue(_, _, _, _)
Enqueue(q, v, new_urls, d) ==
  IF new_urls = <<>> THEN q
  ELSE Enqueue(IF ShouldEnqueue(Head(new_urls), v, q)
                 THEN Append(q, Entry(Head(new_urls), d)) ELSE q,
               v, Tail(new_urls), d)

\* The results _extract_links can return for a page fetched with visited
\* set v and queue q, each in the orders the loop over the set can take:
\* the page links to any set of URLs; a link to a visited or queued URL
\* does not change the queue wherever the iteration meets it, so every page
\* links to all of them, met first, and to any set of the other URLs, met
\* in any order.
RECURSIVE Sorted(_)
Sorted(S) ==
  IF S = {} THEN <<>>
  ELSE LET u == CHOOSE x \in S : \A y \in S : x <= y
       IN <<u>> \o Sorted(S \ {u})

Known(v, q) == v \cup QueueUrls(q)

LinkLists(v, q) ==
  {Sorted(Known(v, q)) \o o :
     o \in UNION {Orders(f) : f \in SUBSET (Linkable \ Known(v, q))}}

\* new_urls of page u, in the orders the loop can meet them
LinksOf(u, v, q) == IF site.fixed THEN Orders(site.links[u]) ELSE LinkLists(v, q)

\* a process_url without the depth test
DepthNeverExceeded(d) == FALSE

\* if self.max_depth > 0 and depth > self.max_depth
DepthExceeded(d) == max_depth > 0 /\ d > max_depth

\* if self.max_depth == 0 or depth < self.max_depth
ExtractsLinks(d) == max_depth = 0 \/ d < max_depth

\* a seeding test that does not look at the queue
ShouldSeedIgnoresQueue(q, v) == base_url \notin v

\* if not self.queue and self.base_url not in self.visited_urls
ShouldSeed(q, v) == q = <<>> /\ base_url \notin v

\* ---- the state file -----------------------------------------------------

\* The state file is a sequence of the chunks json.dump writes; NoFile is
\* the directory without the file.
NoFile == <<[t |-> "absent"]>>

\* json.dump({'visited_urls': list(self.visited_urls), 'queue': self.queue}, f)
Serialize(v, q) ==
  <<[t |-> "open"], [t |-> "visited_urls", val |-> v], [t |-> "queue", val |-> q],
    [t |-> "close"]>>

\* What a write that stops early leaves: open(..., 'w') has truncated the
\* file and only a proper prefix of the document has reached it.
Truncations(f) == {SubSeq(f, 1, n) : n \in 0..(Len(f) - 1)}

\* json.load succeeds on a complete document only.
Loadable(f) ==
  /\ f # NoFile
  /\ Len(f) = 4
  /\ f[1].t = "open"
  /\ f[4].t = "close"

\* state.get('visited_urls', []) and state.get('queue', ...) of a complete
\* document
FileVisited(f) == f[2].val
FileQueue(f) == f[3].val

\* self.visited_urls after _load_state: set(...) of the list
LoadedVisited(f) == FileVisited(f)

\* self.queue after _load_state: run.py takes the list as it is,
\* run-private.py drops the entries whose URL is in the loaded visited set.
LoadedQueue(f) ==
  IF crawler = "run" THEN FileQueue(f)
  ELSE SelectSeq(FileQueue(f), LAMBDA e : e.url \notin FileVisited(f))

\* The ways one call of _save_state can go: the document is written; open
\* raises; json.dump raises after open has truncated the file (both caught
\* and printed); the process dies before or inside the write. Over a fixed
\* site the file system does not fail and the process dies between steps.
ErrorResults == {"open_error", "write_error"}
CrashResults == {"crash_before", "crash_inside"}
SaveResults ==
  IF site.fixed THEN {"saved"}
  ELSE {"saved"} \cup CrashResults
         \cup (IF save_errors < MaxSaveErrors THEN ErrorResults ELSE {})

CountError(r) == IF r \in ErrorResults THEN save_errors + 1 ELSE save_errors

\* self.visited_urls and self.queue after _save_state has run with frontier
\* v, q in memory: it reads them and assigns neither, however the write goes.
MemoryAfterSaveDropsOnError(v, q, r) ==
  IF r \in ErrorResults THEN <<{}, <<>>>> ELSE <<v, q>>

MemoryAfterSave(v, q, r) == <<v, q>>

FileAfterSave(v, q, r) ==
  CASE r = "saved" -> {Serialize(v, q)}
    [] r \in {"open_error", "crash_before"} -> {state_file}
    [] OTHER -> Truncations(Serialize(v, q))

\* ---- positions ----------------------------------------------------------

Running == {"constructed", "seeded", "loop", "batch", "asleep"}
Stopped == {"off", "crashed", "done", "aborted"}

AllDone == \A i \in 1..Len(task) : task[i] = "done"
NoneReady == \A i \in 1..Len(task) : task[i] # "ready"
\* the first batch entry whose process_url has not been called yet
NextReady == CHOOSE i \in 1..Len(task) : task[i] = "ready" /\ \A j \in 1..(i - 1) : task[j] # "ready"

ZeroCount == [u \in DeepUrls |-> 0]

\* The process is gone: nothing of the object survives.
Halt(p, cause) ==
  /\ phase' = p
  /\ abort_cause' = cause
  /\ crawler' = crawler
  /\ resume' = TRUE
  /\ max_workers' = 1
  /\ max_depth' = 0
  /\ fetch_count' = ZeroCount
  /\ save_errors' = 0
  /\ loaded' = FALSE
  /\ written' = {}
  /\ visited_urls' = {}
  /\ queue' = <<>>
  /\ batch' = <<>>
  /\ task' = <<>>
  /\ attempt' = 0
  /\ slept' = <<>>
  /\ last' = "none"
  /\ last_save' = "none"

\* The process dies; w are the documents its run had written.
Crashed(w) ==
  /\ Halt("crashed", "none")
  /\ written_prev' = w
  /\ saved' = FALSE
  /\ snapshot' = <<>>
  /\ final' = <<>>
  /\ UNCHANGED <<site, reference>>

\* The run ends with visited set v: a run that started from the seed and
\* was not interrupted is the reference for the runs that resume.
Ended(v) ==
  /\ final' = Note(<<v>>)
  /\ reference' = IF site.fixed /\ snapshot = <<>> THEN <<v>> ELSE reference
  /\ UNCHANGED <<site, snapshot>>

\* An exception leaves crawl() and the process ends; v is the visited set
\* in memory then, s whether _save_state was called after the exception.
Aborted(cause, v, s) ==
  /\ Halt("aborted", cause)
  /\ written_prev' = {}
  /\ saved' = s
  /\ IF cause = "url" THEN Ended(v) ELSE UNCHANGED scenario

\* Before the first run: no process, no state file.
InitState ==
  /\ crawler \in {"run", "private"}
  /\ resume = TRUE
  /\ max_workers = 1
  /\ max_depth = 0
  /\ visited_urls = {}
  /\ queue = <<>>
  /\ batch = <<>>
  /\ task = <<>>
  /\ attempt = 0
  /\ slept = <<>>
  /\ last = "none"
  /\ state_file = NoFile
  /\ written = {}
  /\ written_prev = {}
  /\ fetch_count = ZeroCount
  /\ save_errors = 0
  /\ loaded = FALSE
  /\ phase = "off"
  /\ abort_cause = "none"
  /\ runs = 0
  /\ reference = <<>>
  /\ snapshot = <<>>
  /\ final = <<>>
  /\ saved = FALSE
  /\ abandoned = {}
  /\ last_save = "none"
  /\ after_clean = FALSE

\* No page is looked at while the runs are followed.
NoPage == [base_url |-> <<>>, base_domain |-> <<>>, exclude_pattern |-> <<>>, url |-> <<>>]
NoContent == page = NoPage /\ extracted = <<>> /\ rewritten = <<>> /\ stored = <<>>

Init == InitState /\ site \in FreeSites(crawler) /\ NoContent

\* ---- __init__ -----------------------------------------------------------

DepthChoices ==
  IF crawler = "run" THEN {0}
  ELSE IF site.fixed THEN {site.depth} ELSE 0..MaxDepthLimit

\* --workers takes any integer
WorkerChoices == IF site.fixed THEN {site.workers} ELSE -1..MaxWorkers

RunLimit == IF site.fixed THEN MaxSiteRuns ELSE IF site = DeepSite THEN 1 ELSE MaxRuns

\* DocumentationCrawler.__init__ / PrivateDocumentationCrawler.__init__:
\* a new process starts on the output directory and loads the state file.
Construct ==
  /\ phase \in Stopped
  /\ runs < RunLimit
  /\ \E rs \in BOOLEAN, mw \in WorkerChoices, md \in DepthChoices :
       /\ resume' = rs
       /\ abandoned' = IF rs THEN abandoned ELSE {}
       /\ after_clean' = (rs /\ phase = "done" /\ last_save = "saved")
       /\ max_workers' = mw
       /\ max_depth' = md
       /\ IF rs /\ Loadable(state_file)
            THEN /\ visited_urls' = LoadedVisited(state_file)
                 /\ queue' = LoadedQueue(state_file)
                 /\ loaded' = TRUE
                 /\ snapshot' = Note(<<LoadedVisited(state_file), LoadedQueue(state_file)>>)
            ELSE /\ visited_urls' = {}
                 /\ queue' = <<>>
                 /\ loaded' = FALSE
                 /\ snapshot' = <<>>
  /\ final' = <<>>
  /\ saved' = FALSE
  /\ last_save' = "none"
  /\ batch' = <<>>
  /\ task' = <<>>
  /\ attempt' = 0
  /\ slept' = <<>>
  /\ last' = "none"
  /\ written_prev' = IF phase = "crashed" THEN written_prev ELSE {}
  /\ written' = {}
  /\ fetch_count' = ZeroCount
  /\ save_errors' = 0
  /\ phase' = "constructed"
  /\ abort_cause' = "none"
  /\ runs' = runs + 1
  /\ UNCHANGED <<crawler, state_file, site, reference, content>>

\* ---- crawl(): seeding ---------------------------------------------------

\* The head of crawl(): seed the base URL at depth 1. run-private.py seeds
\* only a base URL that its own _normalize_url accepts (base_ok) and
\* returns at once otherwise.
Seed ==
  /\ phase = "constructed"
  /\ IF ShouldSeed(queue, visited_urls)
       THEN \E base_ok \in (IF crawler = "run" \/ site.fixed THEN {TRUE} ELSE BOOLEAN) :
              IF base_ok
                THEN /\ queue' = Append(queue, Entry(base_url, 1))
                     /\ phase' = "seeded"
                ELSE /\ queue' = queue
                     /\ phase' = "done"
       ELSE /\ queue' = queue
            /\ phase' = "seeded"
  /\ UNCHANGED <<config, visited_urls, batch, task, attempt, slept, last, disk,
                 abort_cause, runs, fetch_count, save_errors, loaded, scenario, saved,
                 history, content>>

\* crawl() is inside `async with AsyncWebCrawler(...)` before the loop or
\* after it: run-private.py returns before it when it does not seed the
\* base URL, and every end of its loop has the base URL visited.
AtBrowser ==
  \/ phase = "seeded"
  \/ phase = "done" /\ (crawler = "run" \/ ~ShouldSeed(queue, visited_urls))

\* async with AsyncWebCrawler(...) raises, on entry or on exit after the
\* loop has ended. run.py lets the exception leave crawl(); run-private.py
\* catches it, saves the state and returns.
BrowserFault ==
  /\ AtBrowser
  /\ IF crawler = "run"
       THEN /\ Aborted("capability", visited_urls, FALSE)
            /\ UNCHANGED state_file
       ELSE \E r \in SaveResults :
              /\ state_file' \in FileAfterSave(visited_urls, queue, r)
              /\ IF r \in CrashResults
                   THEN Crashed(written)
                   ELSE Aborted("capability", visited_urls, TRUE)
  /\ UNCHANGED <<runs, abandoned, after_clean, content>>

\* ---- crawl(): the loop --------------------------------------------------

\* a batch that takes the whole queue
BatchSizeWholeQueue(q) == Len(q)

AtLeastZero(n) == IF n < 0 THEN 0 ELSE n

\* run.py: range(min(self.max_workers, len(self.queue))), which is empty for
\* a count below one; run-private.py: the slice [:self.max_workers], which
\* for a negative max_workers leaves out that many entries at the end.
BatchSize(q) ==
  IF crawler = "run" \/ max_workers >= 0
    THEN AtLeastZero(IF max_workers < Len(q) THEN max_workers ELSE Len(q))
    ELSE AtLeastZero(Len(q) + max_workers)

\* The entries the iteration takes: the head of the queue.
TakeBatch(q) == SubSeq(q, 1, BatchSize(q))

\* The queue after the drain: run.py pops the batch, run-private.py leaves
\* the entries queued until process_url starts on them.
QueueAfterDrain(q) ==
  IF crawler = "run" THEN SubSeq(q, BatchSize(q) + 1, Len(q)) ELSE q

\* One pass through the head of `while True`, under the lock.
Drain ==
  /\ phase \in {"seeded", "loop"}
  /\ IF queue = <<>>
       THEN /\ phase' = "done"
            /\ Ended(visited_urls)
            /\ UNCHANGED <<queue, batch, task, saved>>
       ELSE /\ batch' = TakeBatch(queue)
            /\ queue' = QueueAfterDrain(queue)
            /\ task' = [i \in 1..BatchSize(queue) |-> "ready"]
            /\ phase' = IF crawler = "private" /\ TakeBatch(queue) = <<>>
                          THEN "asleep" ELSE "batch"
            /\ saved' = FALSE
            /\ UNCHANGED scenario
  /\ UNCHANGED <<config, visited_urls, attempt, slept, last, disk,
                 abort_cause, runs, fetch_count, save_errors, loaded, history,
                 content>>

\* ---- process_url --------------------------------------------------------

\* process_url returns without a save (already visited, depth limit, login
\* page) or an exception of it is caught by the loop of run-private.py.
FinishNoSave(i, o) ==
  /\ task' = [task EXCEPT ![i] = "done"]
  /\ last' = o
  /\ attempt' = 0
  /\ slept' = <<>>
  /\ UNCHANGED <<config, visited_urls, queue, batch, disk, phase, abort_cause,
                 save_errors, loaded, scenario, saved, last_save>>

\* An exception leaves process_url after the document was stored and
\* before the save; w are the documents written.
FinishRaisedAfterStore(i, o, w) ==
  /\ task' = [task EXCEPT ![i] = "done"]
  /\ last' = o
  /\ attempt' = 0
  /\ slept' = <<>>
  /\ written' = w
  /\ UNCHANGED <<config, visited_urls, queue, batch, state_file, written_prev, phase,
                 abort_cause, save_errors, loaded, scenario, saved, last_save>>

\* How a call of _save_state that returned went: the file holds the
\* frontier, or the exception was caught and printed.
SaveOutcome(r) == IF r = "saved" THEN "saved" ELSE "failed"

\* process_url ends in `await self._save_state()`: v and q are the frontier
\* it leaves in memory, w the documents written and c the fetches
\* dispatched so far.
FinishWithSave(i, o, v, q, w, c) ==
  \E r \in SaveResults :
    /\ state_file' \in FileAfterSave(v, q, r)
    /\ IF r \in CrashResults
         THEN Crashed(w)
         ELSE /\ visited_urls' = MemoryAfterSave(v, q, r)[1]
              /\ queue' = MemoryAfterSave(v, q, r)[2]
              /\ saved' = TRUE
              /\ last_save' = SaveOutcome(r)
              /\ written' = w
              /\ task' = [task EXCEPT ![i] = "done"]
              /\ last' = o
              /\ attempt' = 0
              /\ slept' = <<>>
              /\ save_errors' = CountError(r)
              /\ fetch_count' = c
              /\ UNCHANGED <<config, batch, phase, abort_cause, written_prev, loaded,
                             scenario>>

\* process_url that starts the fetch without recording the URL
MarkVisitedForgets(v, u) == v

\* run.py: self.visited_urls.add(url.split('#')[0]); run-private.py:
\* self.visited_urls.add(url)
MarkVisited(v, u) == v \cup {IF crawler = "run" THEN WithoutFragment(u) ELSE u}

CountFetch(u) == [fetch_count EXCEPT ![u] = @ + 1]

\* -- run-private.py

\* The head of PrivateDocumentationCrawler.process_url, under the lock.
PrivateBegin ==
  /\ crawler = "private"
  /\ phase = "batch"
  /\ ~AllDone
  /\ NoneReady = FALSE
  /\ \A i \in 1..Len(task) : task[i] # "fetching"
  /\ LET i == NextReady
         u == batch[i].url
         d == batch[i].depth
     IN IF u \in visited_urls \/ DepthExceeded(d)
          THEN /\ FinishNoSave(i, "none")
               /\ UNCHANGED fetch_count
          ELSE /\ visited_urls' = MarkVisited(visited_urls, u)
               /\ queue' = RemoveUrl(queue, u)
               /\ task' = [task EXCEPT ![i] = "fetching"]
               /\ attempt' = 1
               /\ slept' = <<>>
               /\ last' = "none"
               /\ fetch_count' = CountFetch(u)
               /\ UNCHANGED <<config, batch, disk, phase, abort_cause, save_errors,
                              loaded, scenario, saved, last_save>>
  /\ UNCHANGED <<runs, abandoned, after_clean, content>>

\* What one `await crawler.arun(...)` of run-private.py can produce: a
\* result with a document ("ok", "login"), one without markdown, a failed
\* result, whose error_message may be that of a closed browser context
\* ("failed_transient"), or an exception with that message or another.
PrivateOutcomes ==
  {"ok", "login", "empty", "failed", "failed_transient", "raise_transient", "raise_other"}

\* What storing the document can do: written, OSError of open/write
\* (caught), an exception of mkdir (not caught by process_url), written
\* and then an exception of _extract_links (urljoin or urlparse of an
\* href raises ValueError; not caught by process_url).
PrivateStores == {"written", "oserror", "mkdir_error", "links_error"}

\* What crawler.arun(u) and storing the document of u can do in this run.
PrivateOutcomesOf(u) ==
  IF site.fixed THEN (IF u \in site.raises THEN {"raise_other"} ELSE {"ok"})
  ELSE PrivateOutcomes

PrivateStoresOf(u) == IF site.fixed THEN {"written"} ELSE PrivateStores

\* except Exception as e: "Target page, context or browser has been
\* closed" in str(e), or another exception; a returned result whose
\* error_message is that of the closed browser context, which process_url
\* logs as a browser context error; "none" for any other returned result
ErrorKind(o) ==
  CASE o = "raise_transient" -> "transient"
    [] o = "raise_other" -> "other"
    [] o = "failed_transient" -> "transient_result"
    [] OTHER -> "none"

\* The attempt met the transient failure: the browser context was closed
\* under it, whether arun raised that or returned it.
TransientSignature(kind) == kind \in {"transient", "transient_result"}

\* "Target page, context or browser has been closed" in error_message
\* and attempt < max_retries
Retries(o, a) == o = "raise_transient" /\ a < max_retries

\* process_url gives the URL up: the last attempt raised (the return in
\* either except branch) or crawler.arun returned a failed result.
GivesUp(o, a) ==
  o \in {"raise_transient", "raise_other", "failed", "failed_transient"} /\ ~Retries(o, a)

\* await asyncio.sleep(retry_delay * attempt)
BackoffDelay(a) == retry_delay * a

\* One attempt of the retry loop and, unless it retries, the rest of
\* process_url.
PrivateFetch ==
  /\ crawler = "private"
  /\ phase = "batch"
  /\ \E i \in 1..Len(task) :
       /\ task[i] = "fetching"
       /\ LET u == batch[i].url
              d == batch[i].depth
          IN \E o \in PrivateOutcomesOf(u) :
               /\ abandoned' = IF GivesUp(o, attempt) THEN abandoned \cup {u} ELSE abandoned
               /\ IF Retries(o, attempt)
                 THEN /\ attempt' = attempt + 1
                      /\ slept' = Append(slept, BackoffDelay(attempt))
                      /\ last' = ErrorKind(o)
                      /\ UNCHANGED <<config, visited_urls, queue, batch, task, disk,
                                     phase, abort_cause, fetch_count, save_errors, loaded,
                                     scenario, saved, last_save>>
                 ELSE CASE o = "raise_transient" ->
                             FinishWithSave(i, ErrorKind(o), visited_urls, RemoveUrl(queue, u),
                                            written, fetch_count)
                        [] o \in {"raise_other", "failed", "failed_transient", "empty"} ->
                             FinishWithSave(i, ErrorKind(o), visited_urls, queue,
                                            written, fetch_count)
                        [] o = "login" ->
                             FinishNoSave(i, ErrorKind(o)) /\ UNCHANGED fetch_count
                        [] OTHER ->
                             \E st \in PrivateStoresOf(u) :
                               IF st = "mkdir_error"
                                 THEN FinishNoSave(i, ErrorKind(o)) /\ UNCHANGED fetch_count
                               ELSE IF st = "links_error"
                                 THEN /\ ExtractsLinks(d)
                                      /\ FinishRaisedAfterStore(i, ErrorKind(o), written \cup {u})
                                      /\ UNCHANGED fetch_count
                                 ELSE \E new_urls \in LinksOf(u, visited_urls, queue) :
                                        FinishWithSave(i, ErrorKind(o), visited_urls,
                                          IF ExtractsLinks(d)
                                            THEN Enqueue(queue, visited_urls, new_urls, d + 1)
                                            ELSE queue,
                                          IF st = "written" THEN written \cup {u} ELSE written,
                                          fetch_count)
  /\ UNCHANGED <<runs, after_clean, content>>

\* -- run.py

RunOutcomes == {"ok", "failed", "raise"}
RunStores == {"written", "error", "links_error"}

\* What crawler.arun(u) and storing the document of u can do in this run.
RunOutcomesOf(u) ==
  IF site.fixed THEN (IF u \in site.raises THEN {"raise"} ELSE {"ok"}) ELSE RunOutcomes

RunStoresOf(u) == IF site.fixed THEN {"written"} ELSE RunStores

\* An exception leaves process_url of batch entry i, with visited set v in
\* memory, documents w written and fetch counts c: the task is over and
\* gather will hand the exception to crawl(), which does not run before
\* the tasks that are ready.
RunRaised(i, v, w, c) ==
  /\ task' = [task EXCEPT ![i] = "raised"]
  /\ visited_urls' = v
  /\ written' = w
  /\ fetch_count' = c
  /\ UNCHANGED <<config, queue, batch, attempt, slept, last, state_file, written_prev,
                 phase, abort_cause, save_errors, loaded, scenario, saved, last_save>>

\* DocumentationCrawler.process_url from the return of crawler.arun on, with
\* visited set v in memory and fetch counts c. An exception of arun, of
\* storing the document or of _extract_links is not caught: it leaves
\* process_url.
RunAfterFetch(i, v, c) ==
  LET u == batch[i].url
  IN \E o \in RunOutcomesOf(u) :
       CASE o = "raise" ->
              RunRaised(i, v, written, c)
         [] o = "failed" ->
              FinishWithSave(i, "none", v, queue, written, c)
         [] OTHER ->
              \E st \in RunStoresOf(u) :
                IF st = "error"
                  THEN RunRaised(i, v, written, c)
                ELSE IF st = "links_error"
                  THEN RunRaised(i, v, written \cup {u}, c)
                  ELSE \E new_urls \in LinksOf(u, v, queue) :
                         FinishWithSave(i, "none", v,
                           Enqueue(queue, v, new_urls, 0), written \cup {u}, c)

\* The task of the next batch entry runs from its start to its first
\* suspension: it marks the URL and calls crawler.arun, which suspends the
\* task or returns without suspending it.
RunBegin ==
  /\ crawler = "run"
  /\ phase = "batch"
  /\ ~NoneReady
  /\ LET i == NextReady
         u == batch[i].url
     IN IF u \in visited_urls
          THEN /\ FinishNoSave(i, "none")
               /\ UNCHANGED fetch_count
          ELSE \/ /\ visited_urls' = MarkVisited(visited_urls, u)
                  /\ task' = [task EXCEPT ![i] = "fetching"]
                  /\ fetch_count' = CountFetch(u)
                  /\ UNCHANGED <<config, queue, batch, attempt, slept, last, disk,
                                 phase, abort_cause, save_errors, loaded, scenario,
                                 saved, last_save>>
               \/ RunAfterFetch(i, MarkVisited(visited_urls, u), CountFetch(u))
  /\ UNCHANGED <<runs, abandoned, after_clean, content>>

\* A suspended task resumes with the result of crawler.arun; every task of
\* the batch has run to its first suspension by then.
RunComplete ==
  /\ crawler = "run"
  /\ phase = "batch"
  /\ NoneReady
  /\ \E i \in 1..Len(task) :
       /\ task[i] = "fetching"
       /\ RunAfterFetch(i, visited_urls, fetch_count)
  /\ UNCHANGED <<runs, abandoned, after_clean, content>>

\* crawl() gets the exception of a task from `await asyncio.gather(*tasks)`
\* (run.py:179): it leaves crawl() and the process ends. Every task of the
\* batch has run to its first suspension by then; the tasks that are
\* suspended are dropped.
RunAbort ==
  /\ crawler = "run"
  /\ phase = "batch"
  /\ NoneReady
  /\ \E i \in 1..Len(task) : task[i] = "raised"
  /\ Aborted("url", visited_urls, FALSE)
  /\ UNCHANGED <<state_file, runs, abandoned, after_clean, content>>

\* ---- the end of a batch -------------------------------------------------

\* gather returns (run.py); the for loop ends and the state is saved
\* (run-private.py).
EndBatch ==
  /\ phase = "batch"
  /\ AllDone
  /\ IF crawler = "run"
       THEN /\ phase' = "loop"
            /\ batch' = <<>>
            /\ task' = <<>>
            /\ last' = "none"
            /\ UNCHANGED <<config, visited_urls, queue, attempt, slept, disk,
                           abort_cause, fetch_count, save_errors, loaded, scenario,
                           saved, last_save>>
       ELSE \E r \in SaveResults :
              /\ state_file' \in FileAfterSave(visited_urls, queue, r)
              /\ IF r \in CrashResults
                   THEN Crashed(written)
                   ELSE /\ phase' = "loop"
                        /\ batch' = <<>>
                        /\ task' = <<>>
                        /\ last' = "none"
                        /\ save_errors' = CountError(r)
                        /\ visited_urls' = MemoryAfterSave(visited_urls, queue, r)[1]
                        /\ queue' = MemoryAfterSave(visited_urls, queue, r)[2]
                        /\ saved' = TRUE
                        /\ last_save' = SaveOutcome(r)
                        /\ UNCHANGED <<config, attempt, slept,
                                       written, written_prev, abort_cause, fetch_count,
                                       loaded, scenario>>
  /\ UNCHANGED <<runs, abandoned, after_clean, content>>

\* run-private.py: `if not batch: await asyncio.sleep(1); continue`, the
\* sleep is over.
Wake ==
  /\ phase = "asleep"
  /\ phase' = "loop"
  /\ UNCHANGED <<config, memory, disk, abort_cause, runs, fetch_count, save_errors,
                 loaded, saved, scenario, history, content>>

\* The process dies (kill, power loss) outside _save_state.
Crash ==
  /\ phase \in Running
  /\ Crashed(written)
  /\ UNCHANGED <<state_file, runs, abandoned, after_clean, content>>

Next ==
  \/ Construct
  \/ Seed
  \/ BrowserFault
  \/ Drain
  \/ PrivateBegin
  \/ PrivateFetch
  \/ RunBegin
  \/ RunComplete
  \/ RunAbort
  \/ EndBatch
  \/ Wake
  \/ Crash

Spec == Init /\ [][Next]_vars

\* ---- the runs over one fixed site ---------------------------------------

InitSite ==
  /\ InitState
  /\ NoContent
  /\ site \in Sites
  /\ crawler = "run" => site.depth = 0

SpecSite == InitSite /\ [][Next]_vars

\* ---- run-private.py alone, with the scheduling of its single task ------

InitPrivate == Init /\ crawler = "private"

NextPrivate ==
  \/ Construct
  \/ Seed
  \/ BrowserFault
  \/ Drain
  \/ PrivateBegin
  \/ PrivateFetch
  \/ EndBatch
  \/ Wake
  \/ Crash

\* The steps of crawl() itself: the event loop always resumes the one
\* coroutine, every sleep ends and every fetch attempt returns or raises.
CrawlStep == Seed \/ Drain \/ PrivateBegin \/ PrivateFetch \/ EndBatch \/ Wake

SpecPrivateLive == InitPrivate /\ [][NextPrivate]_vars /\ WF_vars(CrawlStep)

\* ---- run-private.py alone, one run over the larger set of URLs ---------

InitDeep == InitState /\ NoContent /\ site = DeepSite /\ crawler = "private"

SpecDeep == InitDeep /\ [][NextPrivate]_vars

\* ---- strings ------------------------------------------------------------

\* A string is the sequence of its characters.
LowerCase ==
  <<"a", "b", "c", "d", "e", "f", "g", "h", "i", "j", "k", "l", "m",
    "n", "o", "p", "q", "r", "s", "t", "u", "v", "w", "x", "y", "z">>
UpperCase ==
  <<"A", "B", "C", "D", "E", "F", "G", "H", "I", "J", "K", "L", "M",
    "N", "O", "P", "Q", "R", "S", "T", "U", "V", "W", "X", "Y", "Z">>
Letters == {LowerCase[k] : k \in 1..26} \cup {UpperCase[k] : k \in 1..26}

\* s.lower()
ToLower(s) ==
  [k \in 1..Len(s) |->
     IF \E j \in 1..26 : UpperCase[j] = s[k]
       THEN LowerCase[CHOOSE j \in 1..26 : UpperCase[j] = s[k]] ELSE s[k]]

\* s.startswith(p), s.endswith(p)
StartsWith(s, p) == Len(p) <= Len(s) /\ SubSeq(s, 1, Len(p)) = p
EndsWith(s, p) == Len(p) <= Len(s) /\ SubSeq(s, Len(s) - Len(p) + 1, Len(s)) = p

\* the characters of s
Range(s) == {s[k] : k \in 1..Len(s)}

\* s[n:]
Drop(s, n) == SubSeq(s, n + 1, Len(s))

\* the least index of a set of indices, 0 for the empty set
First(at) == IF at = {} THEN 0 ELSE CHOOSE i \in at : \A j \in at : i <= j

\* s.find(p), counted from 1; 0 when p does not occur
Find(s, p) ==
  First({i \in 1..(Len(s) - Len(p) + 1) : SubSeq(s, i, i + Len(p) - 1) = p})

\* s.split(p, 1)[0] and what follows the first p ('' when p does not occur)
Before(s, p) == IF Find(s, p) = 0 THEN s ELSE SubSeq(s, 1, Find(s, p) - 1)
After(s, p) == IF Find(s, p) = 0 THEN <<>> ELSE Drop(s, Find(s, p) + Len(p) - 1)

\* s.replace(p, '')
RECURSIVE Remove(_, _)
Remove(s, p) ==
  IF p = <<>> \/ Find(s, p) = 0 THEN s
  ELSE SubSeq(s, 1, Find(s, p) - 1) \o Remove(Drop(s, Find(s, p) + Len(p) - 1), p)

\* s.rfind(c), counted from 1; 0 when c does not occur
RFind(s, c) ==
  IF c \notin Range(s) THEN 0
  ELSE CHOOSE i \in 1..Len(s) : s[i] = c /\ \A j \in (i + 1)..Len(s) : s[j] # c

\* s.lstrip(c), s.rstrip(c), s.strip(c) for one character c
RECURSIVE LStrip(_, _)
LStrip(s, c) == IF s # <<>> /\ s[1] = c THEN LStrip(Tail(s), c) ELSE s
RECURSIVE RStrip(_, _)
RStrip(s, c) ==
  IF s # <<>> /\ s[Len(s)] = c THEN RStrip(SubSeq(s, 1, Len(s) - 1), c) ELSE s
Strip(s, c) == RStrip(LStrip(s, c), c)

\* s.split(c) and c.join(parts) for one character c
RECURSIVE Split(_, _)
Split(s, c) ==
  IF Find(s, <<c>>) = 0 THEN <<s>>
  ELSE <<SubSeq(s, 1, Find(s, <<c>>) - 1)>> \o Split(Drop(s, Find(s, <<c>>)), c)
RECURSIVE Join(_, _)
Join(parts, c) ==
  IF parts = <<>> THEN <<>>
  ELSE IF Len(parts) = 1 THEN parts[1]
  ELSE parts[1] \o <<c>> \o Join(Tail(parts), c)

\* ---- urllib.parse -------------------------------------------------------

\* The characters of a URL or an href are letters, digits, blanks and ASCII
\* punctuation other than '[' and ']': urlsplit raises ValueError for a
\* netloc with an unbalanced or ill-formed bracket, the outcome
\* "links_error" of storing a document.
SchemeChars ==
  Letters \cup {"0", "1", "2", "3", "4", "5", "6", "7", "8", "9"} \cup {"+", "-", "."}

\* uses_relative
UsesRelative ==
  { <<>>, <<"f", "t", "p">>, <<"h", "t", "t", "p">>,
    <<"g", "o", "p", "h", "e", "r">>, <<"n", "n", "t", "p">>,
    <<"i", "m", "a", "p">>, <<"w", "a", "i", "s">>, <<"f", "i", "l", "e">>,
    <<"h", "t", "t", "p", "s">>, <<"s", "h", "t", "t", "p">>,
    <<"m", "m", "s">>, <<"p", "r", "o", "s", "p", "e", "r", "o">>,
    <<"r", "t", "s", "p">>, <<"r", "t", "s", "p", "s">>,
    <<"r", "t", "s", "p", "u">>, <<"s", "f", "t", "p">>, <<"s", "v", "n">>,
    <<"s", "v", "n", "+", "s", "s", "h">>, <<"w", "s">>, <<"w", "s", "s">> }

\* uses_netloc
UsesNetloc ==
  { <<>>, <<"f", "t", "p">>, <<"h", "t", "t", "p">>,
    <<"g", "o", "p", "h", "e", "r">>, <<"n", "n", "t", "p">>,
    <<"t", "e", "l", "n", "e", "t">>, <<"i", "m", "a", "p">>,
    <<"w", "a", "i", "s">>, <<"f", "i", "l", "e">>, <<"m", "m", "s">>,
    <<"h", "t", "t", "p", "s">>, <<"s", "h", "t", "t", "p">>,
    <<"s", "n", "e", "w", "s">>, <<"p", "r", "o", "s", "p", "e", "r", "o">>,
    <<"r", "t", "s", "p">>, <<"r", "t", "s", "p", "s">>,
    <<"r", "t", "s", "p", "u">>, <<"r", "s", "y", "n", "c">>,
    <<"s", "v", "n">>, <<"s", "v", "n", "+", "s", "s", "h">>,
    <<"s", "f", "t", "p">>, <<"n", "f", "s">>, <<"g", "i", "t">>,
    <<"g", "i", "t", "+", "s", "s", "h">>, <<"w", "s">>, <<"w", "s", "s">> }

\* uses_params
UsesParams ==
  { <<>>, <<"f", "t", "p">>, <<"h", "d", "l">>,
    <<"p", "r", "o", "s", "p", "e", "r", "o">>, <<"h", "t", "t", "p">>,
    <<"i", "m", "a", "p">>, <<"h", "t", "t", "p", "s">>,
    <<"s", "h", "t", "t", "p">>, <<"r", "t", "s", "p">>,
    <<"r", "t", "s", "p", "s">>, <<"r", "t", "s", "p", "u">>,
    <<"s", "i", "p">>, <<"s", "i", "p", "s">>, <<"m", "m", "s">>,
    <<"s", "f", "t", "p">>, <<"t", "e", "l">> }

\* url.lstrip(_WHATWG_C0_CONTROL_OR_SPACE) and the removal of
\* _UNSAFE_URL_BYTES_TO_REMOVE; of the C0 controls the strings considered
\* have tab, newline and carriage return.
Cleaned(url) ==
  SelectSeq(Drop(url, First({k \in 1..Len(url) : url[k] \notin {" ", "\t", "\n", "\r"}}
                            \cup {Len(url) + 1}) - 1),
            LAMBDA ch : ch \notin {"\t", "\n", "\r"})

\* The length of the scheme of u, whose first ':' is at index i: what
\* precedes the ':' when that starts with a letter and is a word of scheme
\* characters.
SchemeLength(u, i) ==
  IF i > 1 /\ u[1] \in Letters /\ \A k \in 1..(i - 1) : u[k] \in SchemeChars
    THEN i - 1 ELSE 0

\* The end of urlsplit: the fragment is what follows the first '#', the
\* query what follows the first '?' before it.
SplitFragment(scheme, netloc, url) ==
  [scheme |-> scheme, netloc |-> netloc,
   path |-> Before(Before(url, <<"#">>), <<"?">>), params |-> <<>>,
   query |-> After(Before(url, <<"#">>), <<"?">>), fragment |-> After(url, <<"#">>)]

\* _splitnetloc(url, 2): the netloc is what follows '//' up to the next '/',
\* '?' or '#', at index stop of what follows.
SplitAfterScheme(scheme, url) ==
  LET after == Drop(url, 2)
      stop == First({k \in 1..Len(after) : after[k] \in {"/", "?", "#"}}
                    \cup {Len(after) + 1})
  IN IF StartsWith(url, <<"/", "/">>)
       THEN SplitFragment(scheme, SubSeq(after, 1, stop - 1), Drop(after, stop - 1))
       ELSE SplitFragment(scheme, <<>>, url)

\* urlsplit(url, scheme)
urlsplit(url, scheme) ==
  LET cleaned == Cleaned(url)
      n == SchemeLength(cleaned, Find(cleaned, <<":">>))
  IN IF n > 0
       THEN SplitAfterScheme(ToLower(SubSeq(cleaned, 1, n)), Drop(cleaned, n + 1))
       ELSE SplitAfterScheme(scheme, cleaned)

\* urlparse(url, scheme) and urlparse(url); _splitparams(url): the
\* parameters follow the first ';' of the last segment of the path
urlparse_scheme(url, scheme) ==
  LET split == urlsplit(url, scheme)
      i == First({k \in (RFind(split.path, "/") + 1)..Len(split.path) :
                    split.path[k] = ";"})
  IN IF split.scheme \in UsesParams /\ i # 0
       THEN [split EXCEPT !.path = SubSeq(split.path, 1, i - 1),
                          !.params = Drop(split.path, i)]
       ELSE split
urlparse(url) == urlparse_scheme(url, <<>>)

\* urlunparse((scheme, netloc, path, params, query, fragment)): urlunsplit
\* of the path with its parameters
urlunparse(p) ==
  LET url == IF p.params # <<>> THEN p.path \o <<";">> \o p.params ELSE p.path
  IN (IF p.scheme # <<>> THEN p.scheme \o <<":">> ELSE <<>>)
     \o (IF \/ p.netloc # <<>>
            \/ p.scheme # <<>> /\ p.scheme \in UsesNetloc
                 /\ ~StartsWith(url, <<"/", "/">>)
           THEN <<"/", "/">> \o p.netloc
                \o (IF url # <<>> /\ url[1] # "/" THEN <<"/">> ELSE <<>>) \o url
           ELSE url)
     \o (IF p.query # <<>> THEN <<"?">> \o p.query ELSE <<>>)
     \o (IF p.fragment # <<>> THEN <<"#">> \o p.fragment ELSE <<>>)

\* urldefrag(u)[0] and urldefrag(u)[1]
urldefrag(u) ==
  IF "#" \notin Range(u) THEN u ELSE urlunparse([urlparse(u) EXCEPT !.fragment = <<>>])
Fragment(u) == IF "#" \notin Range(u) THEN <<>> ELSE urlparse(u).fragment

\* The loop of urljoin over the path segments: '..' drops the segment before
\* it, '.' is dropped.
RECURSIVE ResolveSegments(_, _)
ResolveSegments(segments, resolved) ==
  IF segments = <<>> THEN resolved
  ELSE ResolveSegments(Tail(segments),
         IF segments[1] = <<".", ".">>
           THEN IF resolved = <<>> THEN <<>> ELSE SubSeq(resolved, 1, Len(resolved) - 1)
           ELSE IF segments[1] = <<".">> THEN resolved
           ELSE Append(resolved, segments[1]))

\* segments[1:-1] = filter(None, segments[1:-1])
DropEmptyInside(segments) ==
  IF Len(segments) < 3 THEN segments
  ELSE <<segments[1]>>
       \o SelectSeq(SubSeq(segments, 2, Len(segments) - 1), LAMBDA g : g # <<>>)
       \o <<segments[Len(segments)]>>

\* The segments urljoin resolves: those of a path that starts with '/', else
\* those of the base's directory (the base path's segments without the last
\* one, unless that is empty) followed by those of the path.
JoinSegments(bpath, path) ==
  LET base_parts == Split(bpath, "/")
      dir_parts == IF base_parts[Len(base_parts)] # <<>>
                     THEN SubSeq(base_parts, 1, Len(base_parts) - 1)
                     ELSE base_parts
  IN IF path # <<>> /\ path[1] = "/" THEN Split(path, "/")
     ELSE DropEmptyInside(dir_parts \o Split(path, "/"))

\* '/'.join(resolved_path) or '/', resolved_path ending with '' when the
\* last segment is '.' or '..'
ResolvedPath(segments) ==
  Join(ResolveSegments(segments, <<>>)
         \o (IF segments[Len(segments)] \in {<<".">>, <<".", ".">>}
               THEN <<(<<>>)>> ELSE <<>>),
       "/")

\* urljoin(base, url) for the parsed base b and the url parsed with the
\* scheme of the base as its default, r
UrlJoinParsed(url, b, r) ==
  LET netloc == IF r.scheme \in UsesNetloc THEN b.netloc ELSE r.netloc
      path == ResolvedPath(JoinSegments(b.path, r.path))
  IN IF r.scheme # b.scheme \/ r.scheme \notin UsesRelative THEN url
     ELSE IF r.scheme \in UsesNetloc /\ r.netloc # <<>> THEN urlunparse(r)
     ELSE IF r.path = <<>> /\ r.params = <<>>
       THEN urlunparse([r EXCEPT !.netloc = netloc, !.path = b.path,
                                 !.params = b.params,
                                 !.query = IF r.query = <<>> THEN b.query ELSE r.query])
     ELSE urlunparse([r EXCEPT !.netloc = netloc,
                               !.path = IF path = <<>> THEN <<"/">> ELSE path])

\* urljoin(base, url)
urljoin(base, url) ==
  IF base = <<>> THEN url
  ELSE IF url = <<>> THEN base
  ELSE UrlJoinParsed(url, urlparse(base), urlparse_scheme(url, urlparse(base).scheme))

\* ---- _normalize_url -----------------------------------------------------

Http == <<"h", "t", "t", "p", ":", "/", "/">>
Https == <<"h", "t", "t", "p", "s", ":", "/", "/">>
Skipped ==
  { <<"#">>, <<"m", "a", "i", "l", "t", "o", ":">>, <<"t", "e", "l", ":">>,
    <<"j", "a", "v", "a", "s", "c", "r", "i", "p", "t", ":">> }

\* exclude_pattern.search(u) for a pattern of literal characters
Search(pattern, u) == Find(u, pattern) # 0

\* run.py, an href that does not start with http:// or https://, resolved
RunRelative(self, full_url) ==
  IF ~StartsWith(full_url, self.base_url) THEN <<>>
  ELSE <<Before(full_url, <<"#">>)>>

\* run-private.py, an href that is not skipped, resolved
PrivateResolved(self, full_url) ==
  IF urlparse(full_url).netloc # self.base_domain THEN <<>>
  ELSE IF ~StartsWith(full_url, self.base_url) THEN <<>>
  ELSE IF self.exclude_pattern # <<>> /\ Search(self.exclude_pattern[1], full_url)
    THEN <<>>
  ELSE <<urldefrag(full_url)>>

\* _normalize_url(href, base_url) of crawler c with the settings self; the
\* result is <<>> for None and <<url>> for a URL.
_normalize_url(c, self, href, page_url) ==
  IF c = "run"
    THEN IF StartsWith(href, Http) \/ StartsWith(href, Https)
           THEN IF urlparse(href).netloc # self.base_domain THEN <<>>
                ELSE <<Before(href, <<"#">>)>>
           ELSE RunRelative(self, urljoin(page_url, href))
    ELSE IF href = <<>> \/ \E p \in Skipped : StartsWith(href, p) THEN <<>>
         ELSE PrivateResolved(self, urljoin(page_url, href))

\* What _extract_links does with one anchor: run.py passes on an href that
\* is not empty, run-private.py every href.
NormalizedLink(c, self, href, page_url) ==
  IF c = "run" /\ href = <<>> THEN <<>> ELSE _normalize_url(c, self, href, page_url)

\* ---- _get_filename, _process_markdown_links -------------------------------

Md == <<".", "m", "d">>
Index == <<"i", "n", "d", "e", "x">>
Unsafe == {"<", ">", ":", "\"", "/", "\\", "|", "?", "*"}

\* if not path: path = "index"
OrIndex(path) == IF path = <<>> THEN Index ELSE path

\* re.sub(r'[<>:"/\\|?*]', '_', relative_path)
Safe(relative_path) ==
  [k \in 1..Len(relative_path) |->
     IF relative_path[k] \in Unsafe THEN "_" ELSE relative_path[k]]

\* run-private.py: the file name of a safe path. Path(safe_path).name of a
\* safe path, which has no '/', is the path itself, and '' for the path '.';
\* os.path.join(safe_path, "index.md") puts a '/' between the two.
WithIndexMd(safe_path) ==
  IF EndsWith(safe_path, Md) THEN safe_path
  ELSE IF "." \in Range(IF safe_path = <<".">> THEN <<>> ELSE safe_path)
    THEN safe_path \o Md
  ELSE safe_path \o <<"/">> \o Index \o Md

\* _get_filename(url)
_get_filename(c, self, url) ==
  IF c = "run"
    THEN OrIndex(Strip(Remove(Before(url, <<"#">>), self.base_url), "/")) \o Md
    ELSE WithIndexMd(OrIndex(Safe(Strip(Remove(urldefrag(url), self.base_url), "/"))))

\* The parts of a file name as pathlib and os.path.normpath keep them:
\* without the empty parts and the parts '.'. A file name has no part '..'.
PathParts(filename) ==
  SelectSeq(Split(filename, "/"), LAMBDA part : part \notin {<<>>, <<".">>})

\* Path(filename).parent, as the directories from the output directory
Parent(filename) == SubSeq(PathParts(filename), 1, Len(PathParts(filename)) - 1)

\* os.path.relpath(target, start) of two paths under the output directory,
\* each given by its parts, of which the first `common` are the same; '.'
\* when nothing is left
Relpath(target, start) ==
  LET common == Cardinality({k \in 1..Len(start) :
                               k <= Len(target)
                                 /\ SubSeq(target, 1, k) = SubSeq(start, 1, k)})
      rel == Join([k \in 1..(Len(start) - common) |-> <<".", ".">>]
                    \o Drop(target, common), "/")
  IN IF rel = <<>> THEN <<".">> ELSE rel

\* run.py's replacer for the rest of the target after the base URL
RunReplacer(link, base_path) ==
  IF "#" \in Range(link)
       /\ (Before(link, <<"#">>) = base_path \/ Before(link, <<"#">>) = <<>>)
    THEN <<"#">> \o After(link, <<"#">>)
    ELSE <<".">> \o link

\* run-private.py's replacer for a target on the base domain; a fragment
\* is put back with `relative_link += f"#{fragment}"`
PrivateReplacer(c, self, target, page_url) ==
  Relpath(PathParts(_get_filename(c, self, urldefrag(target))),
          Parent(_get_filename(c, self, page_url)))
  \o (IF Fragment(target) # <<>> THEN <<"#">> \o Fragment(target) ELSE <<>>)

\* run.py puts the base URL into its pattern as it is: a '.' of the base
\* URL stands for any character but a newline, and so does the (.*?) that
\* takes the rest of the target. The base URL has no other character that
\* is special in a pattern, the target no ')'.
MatchesBase(target, base) ==
  /\ Len(base) <= Len(target)
  /\ \A k \in 1..Len(base) :
       base[k] = target[k] \/ (base[k] = "." /\ target[k] # "\n")
  /\ \A k \in (Len(base) + 1)..Len(target) : target[k] # "\n"

\* run-private.py's pattern https?://[^\)]+
MatchesHttp(target) ==
  \/ StartsWith(target, Http) /\ Len(target) > Len(Http)
  \/ StartsWith(target, Https) /\ Len(target) > Len(Https)

\* What _process_markdown_links writes for the target of a markdown link
\* [text](target) of the page, the only link of its document: the replacer
\* where the pattern matches, the target itself where it does not.
RewrittenTarget(c, self, target, page_url) ==
  IF c = "run"
    THEN IF ~MatchesBase(target, self.base_url) THEN target
         ELSE RunReplacer(Drop(target, Len(self.base_url)), urlparse(page_url).path)
    ELSE IF ~MatchesHttp(target) THEN target
         ELSE IF urlparse(target).netloc # self.base_domain THEN target
         ELSE PrivateReplacer(c, self, target, page_url)

\* ---- one fetched page ---------------------------------------------------

\* the base_url argument
BaseUrls ==
  { <<"h", "t", "t", "p", "s", ":", "/", "/", "h", "/", "d">>,  \* https://h/d
    <<"h", "t", "t", "p", "s", ":", "/", "/", "h", "/", "d", "/">>,  \* https://h/d/
    <<"h", "t", "t", "p", "s", ":", "/", "/", "h">>,  \* https://h
    <<"h", "t", "t", "p", "s", ":", "/", "/", "h", "/", "d", "#", "f">> }  \* https://h/d#f

\* the exclude_pattern argument, when there is one
ExcludePatterns ==
  { <<"x">> }  \* x

\* the URL of the fetched page
PageUrls ==
  { <<"h", "t", "t", "p", "s", ":", "/", "/", "h">>,  \* https://h
    <<"h", "t", "t", "p", "s", ":", "/", "/", "h", "/", "d">>,  \* https://h/d
    <<"h", "t", "t", "p", "s", ":", "/", "/", "h", "/", "d", "/">>,  \* https://h/d/
    <<"h", "t", "t", "p", "s", ":", "/", "/", "h", "/", "d", "/", "a", "/", "b">>,  \* https://h/d/a/b
    <<"h", "t", "t", "p", "s", ":", "/", "/", "h", "/", "d", "/", "a", "_", "b">>,  \* https://h/d/a_b
    <<"h", "t", "t", "p", "s", ":", "/", "/", "h", "/", "d", "/", ".">>,  \* https://h/d/.
    <<"h", "t", "t", "p", "s", ":", "/", "/", "h", "e", "/", "x">> }  \* https://he/x

\* the href of an anchor of the page
Hrefs ==
  { <<"x">>,  \* x
    <<"/", "x">>,  \* /x
    <<"#", "f">>,  \* #f
    <<"x", "#", "f">>,  \* x#f
    <<>>,  \* (empty)
    <<"h", "t", "t", "p", "s", ":", "/", "/", "h", "/", "d", "/", "x", "#", "f">>,  \* https://h/d/x#f
    <<"h", "t", "t", "p", "s", ":", "/", "/", "h", "/", "x">>,  \* https://h/x
    <<"h", "t", "t", "p", ":", "/", "/", "h", "/", "d", "/", "x">>,  \* http://h/d/x
    <<"h", "t", "t", "p", "s", ":", "/", "/", "e", "/", "d", "/", "x">>,  \* https://e/d/x
    <<"/", "/", "h", "e", "/", "x">>,  \* //he/x
    <<"m", "a", "i", "l", "t", "o", ":", "m">>,  \* mailto:m
    <<"h", "t", "t", "p", "s", ":", "x">> }  \* https:x

\* the target of a markdown link of the page
LinkTargets ==
  { <<"h", "t", "t", "p", "s", ":", "/", "/", "h", "/", "d">>,  \* https://h/d
    <<"h", "t", "t", "p", "s", ":", "/", "/", "h", "/", "d", "/", "a", "/", "b", "#", "f">>,  \* https://h/d/a/b#f
    <<"h", "t", "t", "p", "s", ":", "/", "/", "h", "/", "d", "/", "c", "/", "e">>,  \* https://h/d/c/e
    <<"h", "t", "t", "p", "s", ":", "/", "/", "h", "/", "d", "/", ".">>,  \* https://h/d/.
    <<"h", "t", "t", "p", "s", ":", "/", "/", "h", "/", "x">>,  \* https://h/x
    <<"h", "t", "t", "p", "s", ":", "/", "/", "e", "/", "z">>,  \* https://e/z
    <<"/", "d", "/", "a">>,  \* /d/a
    <<"h", "t", "t", "p", "s", ":", "/", "/", "h", "/", "d", "/", "a", "\n", "b">> }  \* https://h/d/a\nb

\* self.base_url, self.base_domain and self.exclude_pattern as __init__ sets
\* them from its arguments: run.py strips the '/' that ends the base URL and
\* has no exclusion pattern.
Settings(c, base, exclude) ==
  [base_url |-> IF c = "run" THEN RStrip(base, "/") ELSE base,
   base_domain |-> urlparse(base).netloc,
   exclude_pattern |-> IF c = "run" THEN <<>> ELSE exclude,
   url |-> <<>>]

\* A URL that _normalize_url hands back as it is: on the base domain,
\* without a fragment and, in run-private.py or when it is not absolute,
\* under the base URL.
Normalized(c, self, u) == _normalize_url(c, self, u, self.base_url) = <<u>>

\* The URL crawl() queues first: the base URL, which run.py queues without
\* a test and run-private.py when _normalize_url has a URL for it.
Seeds(c, self) ==
  IF c = "run" \/ _normalize_url(c, self, self.base_url, self.base_url) # <<>>
    THEN {self.base_url} ELSE {}

\* The URLs _extract_links finds on the page p, whose anchors have the
\* hrefs `hrefs`; process_url queues them.
Links(c, self, p, hrefs) ==
  {new_url[1] : new_url \in {NormalizedLink(c, self, href, p) : href \in hrefs}
                              \ {<<>>}}

\* What process_url has put into visited_urls for the fetched pages: run.py
\* the URL up to its '#', run-private.py the URL as it is.
VisitedFor(c, pages) ==
  IF c = "run" THEN {Before(p, <<"#">>) : p \in pages} ELSE pages

\* The URLs process_url fetches: the seed, and the links of a fetched page
\* that are not in visited_urls. `pages` are fetched, `fresh` are those of
\* them whose links are still to follow; the links are followed among the
\* URLs `among`.
RECURSIVE Crawled(_, _, _, _, _, _)
Crawled(c, self, pages, fresh, hrefs, among) ==
  IF fresh = {} THEN pages
  ELSE Crawled(c, self,
               pages \cup ((among \cap UNION {Links(c, self, p, hrefs) : p \in fresh})
                             \ VisitedFor(c, pages)),
               (among \cap UNION {Links(c, self, p, hrefs) : p \in fresh})
                 \ (pages \cup VisitedFor(c, pages)),
               hrefs, among)

\* process_url fetches u, the anchors having the hrefs above and the hrefs
\* by which an anchor names u: u in full, u from its '//' on (on a page of
\* the same scheme) and, for the page of a base URL that has a fragment,
\* the base URL.
Fetched(c, self, u) ==
  LET to_u == {u, self.base_url}
                \cup (IF Find(u, <<":", "/", "/">>) = 0 THEN {}
                      ELSE {Drop(u, Find(u, <<":", "/", "/">>))})
  IN u \in Crawled(c, self, Seeds(c, self), Seeds(c, self),
                   Hrefs \cup to_u, PageUrls \cup {u})

\* A crawler with its settings holds a page it has fetched.
InitPage ==
  /\ InitState
  /\ site = AnySite
  /\ \E base \in BaseUrls, exclude \in {<<>>} \cup {<<p>> : p \in ExcludePatterns} :
       \E url \in PageUrls \cup Seeds(crawler, Settings(crawler, base, exclude)) :
         /\ Fetched(crawler, Settings(crawler, base, exclude), url)
         /\ page = [Settings(crawler, base, exclude) EXCEPT !.url = url]
  /\ extracted = <<>>
  /\ rewritten = <<>>
  /\ stored = <<>>

\* _extract_links meets an anchor of the page.
ExtractLink ==
  /\ \E href \in Hrefs :
       extracted' = <<href, NormalizedLink(crawler, page, href, page.url)>>
  /\ UNCHANGED <<config, memory, disk, control, scenario, history, page, rewritten, stored>>

\* _process_markdown_links meets a markdown link of the page.
RewriteLink ==
  /\ \E target \in LinkTargets :
       rewritten' = <<target, RewrittenTarget(crawler, page, target, page.url)>>
  /\ UNCHANGED <<config, memory, disk, control, scenario, history, page, extracted, stored>>

\* process_url stores the document of the page under its file name.
StoreDocument ==
  /\ stored' = <<page.url, _get_filename(crawler, page, page.url)>>
  /\ UNCHANGED <<config, memory, disk, control, scenario, history, page, extracted,
                 rewritten>>

NextPage ==
  \/ ExtractLink
  \/ RewriteLink
  \/ StoreDocument

SpecPage == InitPage /\ [][NextPage]_vars

\* ---- properties ---------------------------------------------------------

TypeOK ==
  /\ visited_urls \subseteq site.urls
  /\ QueueUrls(queue) \subseteq site.urls
  /\ phase \in Running \cup Stopped
  /\ attempt \in 0..max_retries
  /\ Len(task) = Len(batch)

\* C1: within one run no URL is dispatched for fetching more than once,
\* whatever the links, the fetch outcomes and the order in which the tasks
\* of a batch run.
NoDuplicateDispatch == \A u \in URLs : fetch_count[u] <= 1

\* C1 witness: a batch entry whose process_url has not started yet names a
\* URL that this run has already dispatched.
DispatchedUrlDrainedAgain ==
  /\ phase = "batch"
  /\ \E i \in 1..Len(task) : task[i] = "ready" /\ fetch_count[batch[i].url] = 1

\* C2: a run that resumes from the state file a crashed run left fetches no
\* URL whose document the crashed run had written.
CompletedNeverRefetched ==
  (resume /\ loaded) => \A u \in written_prev : fetch_count[u] = 0

\* C3: every run of run-private.py with max_workers >= 1 ends: it leaves
\* its loop, unless the process crashes or the browser cannot be started.
CrawlEnds == (phase \in Running /\ max_workers >= 1) ~> (phase \in Stopped)

\* C4: a complete snapshot in the state file never has a URL both in
\* visited_urls and in queue.
SnapshotDisjoint ==
  Loadable(state_file) =>
    FileVisited(state_file) \cap QueueUrls(FileQueue(state_file)) = {}

\* C5: with max_depth = d > 0 no entry deeper than d is in the queue or in
\* a drained batch of run-private.py.
NoOverDepthEntry ==
  (crawler = "private" /\ max_depth > 0) =>
    /\ \A i \in 1..Len(queue) : queue[i].depth <= max_depth
    /\ \A i \in 1..Len(batch) : batch[i].depth <= max_depth

\* C6: while process_url of run-private.py is fetching, a step makes a
\* further attempt exactly if the attempt just made failed with the
\* transient signature, raised or returned, and fewer than 3 attempts have
\* been made; it has then slept 2 seconds times the number of the failed
\* attempt; there is no 4th attempt.
RetryPolicy ==
  [][(crawler = "private" /\ attempt >= 1 /\ phase' = "batch") =>
       /\ (attempt' = attempt + 1) <=> (TransientSignature(last') /\ attempt < 3)
       /\ (attempt' = attempt + 1) => slept' = Append(slept, 2 * attempt)
       /\ attempt' \in {0, attempt + 1}
       /\ attempt' <= 3]_vars

\* C7: nothing that happens while one URL is processed makes crawl() end.
UrlFailureKeepsLoop == ~(phase = "aborted" /\ abort_cause = "url")

\* C8: a run that resumed from a state file with visited set V and queue P,
\* V and P disjoint and P non-empty or the base URL in V, stands before its
\* first drain with visited_urls = V and queue = P.
ResumeRestoresFrontier ==
  (/\ phase = "seeded"
   /\ resume
   /\ Loadable(state_file)
   /\ FileVisited(state_file) \cap QueueUrls(FileQueue(state_file)) = {}
   /\ (FileQueue(state_file) # <<>> \/ base_url \in FileVisited(state_file)))
  => /\ visited_urls = FileVisited(state_file)
     /\ queue = FileQueue(state_file)

\* C8 witness: a resumed run before its first drain, with visited URLs and
\* pending entries loaded from a snapshot whose sets are disjoint.
ResumedWithPending ==
  /\ phase = "seeded"
  /\ loaded
  /\ visited_urls # {}
  /\ queue # <<>>
  /\ visited_urls \cap QueueUrls(queue) = {}

\* The depth with which the loaded queue entry e is processed; depths play
\* no part without a depth limit.
EntryDepth(e) == IF crawler = "run" \/ site.depth = 0 THEN 0 ELSE e.depth

\* The pages a run meets directly behind page p[1] met at depth p[2], when
\* the URLs in v are visited already: none if the fetch raises or the depth
\* limit stops the extraction of links.
Behind(p, v) ==
  IF p[1] \in site.raises \/ (site.depth > 0 /\ p[2] >= site.depth) THEN {}
  ELSE {<<w, IF site.depth = 0 THEN 0 ELSE p[2] + 1>> : w \in site.links[p[1]] \ v}

RECURSIVE Explored(_, _)
Explored(ps, v) ==
  LET more == ps \cup UNION {Behind(p, v) : p \in ps}
  IN IF more = ps THEN ps ELSE Explored(more, v)

\* The URLs that are in the visited set of snapshot s or can be reached
\* from its pending queue through pages that are not in its visited set.
Continued(s) ==
  LET v == s[1]
      starts == {<<s[2][i].url, EntryDepth(s[2][i])>> : i \in 1..Len(s[2])}
  IN v \cup {p[1] : p \in Explored({p \in starts : p[1] \notin v}, v)}

\* C9: a run that loaded snapshot S and ran to its end has the final
\* visited set of the run from the seed that was not interrupted, over the
\* same site: the two sets differ at most in URLs that are neither in S nor
\* reachable from the pending queue of S other than through visited pages.
ResumedRunSameFinal ==
  (reference # <<>> /\ snapshot # <<>> /\ final # <<>>) =>
    \A u \in URLs :
      (u \in reference[1]) # (u \in final[1]) => u \notin Continued(snapshot)

\* C11: when the processing of a drained batch has ended, _save_state has
\* been called since the batch was drained.
BatchEndSaves == phase = "loop" => saved

\* C12: when an exception has ended the crawl loop, _save_state has been
\* called after the exception.
AbortSaves == phase = "aborted" => saved

\* C13: a step of a batch that does not end the process, whether a write of
\* the state file in it succeeds or fails, keeps the frontier in memory: no
\* visited URL is forgotten, a queued entry leaves the queue only by being
\* marked visited, and a snapshot that was written equals the frontier in
\* memory after the step; a write that fails leaves the run in its loop.
SaveKeepsFrontier ==
  [][(phase = "batch" /\ phase' \in Running) =>
       /\ visited_urls \subseteq visited_urls'
       /\ \A i \in 1..Len(queue) :
            queue[i].url \in QueueUrls(queue') \cup visited_urls'
       /\ (state_file' # state_file /\ Loadable(state_file')) =>
            (FileVisited(state_file') = visited_urls' /\ FileQueue(state_file') = queue')
       /\ (save_errors' # save_errors) => phase' \in {"batch", "loop"}]_vars

\* C13 witness: the first write of the state file failed and the run is
\* between two batches with pending entries in memory.
SaveFailedRunContinues ==
  /\ save_errors = 1
  /\ state_file = NoFile
  /\ phase = "loop"
  /\ visited_urls # {}
  /\ queue # <<>>

\* The batch entries whose fetch has started and whose process_url has not
\* returned.
InFlight == {i \in 1..Len(task) : task[i] = "fetching"}

\* C14: at most max_workers URLs are in flight, none when max_workers is
\* not positive.
WorkersBounded == Cardinality(InFlight) <= AtLeastZero(max_workers)

\* C14 witness: as many fetches in flight as there are workers while more
\* entries are pending.
AllWorkersBusy ==
  /\ phase = "batch"
  /\ Cardinality(InFlight) = max_workers
  /\ queue # <<>>
  /\ QueueUrls(queue) \cap {batch[i].url : i \in 1..Len(batch)} = {}

\* C15: a URL whose fetch run-private.py gave up, in this run or in a run
\* this one resumes, is in the visited set and not in the queue while the
\* crawler runs, and this run has written no document for it.
AbandonedStaysVisited ==
  crawler = "private" =>
    \A u \in abandoned :
      /\ u \notin written
      /\ phase \in Running \cup {"done"} =>
           (u \in visited_urls /\ u \notin QueueUrls(queue))

\* C16: when the process dies while fetches are in flight, the state file it
\* leaves is a complete snapshot with the URLs in flight in its visited set.
InFlightCrashKeepsVisited ==
  [][Crash =>
       \A i \in InFlight :
         Loadable(state_file') /\ batch[i].url \in FileVisited(state_file')]_vars

\* C17: a URL that link discovery hands to the pending queue has the base
\* domain as its host, begins with the base URL and has no fragment; in
\* run-private.py it does not match the exclusion pattern either.
QueuedLinkUnderBase ==
  (extracted # <<>> /\ extracted[2] # <<>>) =>
    LET new_url == extracted[2][1]
    IN /\ urlparse(new_url).netloc = page.base_domain
       /\ StartsWith(new_url, page.base_url)
       /\ Find(new_url, <<"#">>) = 0
       /\ (crawler = "private" /\ page.exclude_pattern # <<>>) =>
            ~Search(page.exclude_pattern[1], new_url)

\* A file under the output directory, as the parts of its path with '.' and
\* '..' resolved.
File(path) == ResolveSegments(PathParts(path), <<>>)

\* The file a path, taken from the directory of the file `file`, names; an
\* empty path names the file itself.
FileAt(file, path) ==
  IF path = <<>> THEN File(file)
  ELSE ResolveSegments(Parent(file) \o PathParts(path), <<>>)

\* The file a link written into the document of page_url points at.
LinkedFile(c, self, link, page_url) ==
  FileAt(_get_filename(c, self, page_url), Before(link, <<"#">>))

\* C18: a markdown link whose target is an absolute URL under the base URL
\* is rewritten to a link that, taken from the directory of the page's output
\* file, is the output file of the target, and keeps the target's fragment.
RewrittenLinkHitsFile ==
  (/\ rewritten # <<>>
   /\ StartsWith(rewritten[1], Http) \/ StartsWith(rewritten[1], Https)
   /\ StartsWith(rewritten[1], page.base_url)) =>
    /\ LinkedFile(crawler, page, rewritten[2], page.url)
         = File(_get_filename(crawler, page, rewritten[1]))
    /\ After(rewritten[2], <<"#">>) = After(rewritten[1], <<"#">>)

\* C19: run-private.py with a depth limit starts no fetch and writes no
\* document for a batch entry that is deeper than the limit.
DepthLimitKept ==
  [][(crawler = "private" /\ max_depth > 0 /\ phase = "batch") =>
       \A i \in 1..Len(batch) :
         /\ (task[i] = "ready" /\ phase' = "batch" /\ task'[i] = "fetching") =>
              batch[i].depth <= max_depth
         /\ (task[i] = "fetching" /\ batch[i].url \in written' \ written) =>
              batch[i].depth <= max_depth]_vars

\* An entry deeper than the limit came out of the queue and process_url is
\* done with it without a fetch.
OverDepthEntrySkipped ==
  /\ crawler = "private"
  /\ max_depth > 0
  /\ phase = "batch"
  /\ \E i \in 1..Len(batch) :
       /\ batch[i].depth > max_depth
       /\ batch[i].url \notin visited_urls
       /\ task[i] = "done"
       /\ fetch_count[batch[i].url] = 0

\* Entry j of the drained batch is out of the queue v, q holds and visited.
DrainedAndMarked(j, v, q) ==
  batch[j].url \in v /\ batch[j].url \notin QueueUrls(q)

\* C20: the entries of a drained batch are out of the pending queue and
\* visited whenever a save writes the frontier and whenever the process_url
\* of another entry of the batch takes a step.
DrainMarksAtOnce ==
  [][(phase = "batch" /\ phase' \in Running /\ Len(task') = Len(task)) =>
       /\ (saved' /\ ~saved) =>
            \A j \in 1..Len(batch) : DrainedAndMarked(j, visited_urls', queue')
       /\ \A i \in 1..Len(task) :
            (task'[i] # task[i]) =>
              \A j \in 1..Len(batch) \ {i} : DrainedAndMarked(j, visited_urls, queue)]_vars

\* C21: a pass through the head of the loop that takes an empty batch ends
\* the loop, whatever max_workers is.
EmptyBatchEndsLoop ==
  [][(Drain /\ TakeBatch(queue) = <<>>) => phase' = "done"]_vars

\* A run of run-private.py that took nothing from a state file.
FreshPrivateRun == crawler = "private" /\ ~loaded

\* The depths of the entries of q never decrease from the head on.
DepthsAscend(q) == \A i, j \in 1..Len(q) : i < j => q[i].depth <= q[j].depth

\* No entry of q lies more than one hop below a page of depth d: a page of
\* depth d that links to the entry's URL would have given it depth d + 1.
WithinOneHop(q, d) == \A k \in 1..Len(q) : q[k].depth <= d + 1

\* C22: in a fresh run of run-private.py the pending entries stand in
\* non-decreasing depth from the head of the queue on, and no pending entry is deeper
\* than one hop below a page being fetched, so the depth of an entry is 1 +
\* the smallest depth of the pages that link to it.
BreadthFirstDepths ==
  FreshPrivateRun =>
    /\ DepthsAscend(queue)
    /\ \A i \in InFlight : WithinOneHop(queue, batch[i].depth)

\* C22 witness: in a fresh run a page of depth 2 has been fetched and its
\* link stands at depth 3 behind a pending entry of depth 2.
TwoDepthsPending ==
  /\ FreshPrivateRun
  /\ \E j, k \in 1..Len(queue) : j < k /\ queue[j].depth = 2 /\ queue[k].depth = 3

\* C23: a run that resumes after a run that ended by the empty queue with
\* its latest save written fetches nothing and changes neither its visited
\* set nor its queue, up to and including its own end of the loop.
CleanResumeIsIdle ==
  [][(after_clean /\ phase \in Running /\ phase' \in Running \cup {"done"})
       => /\ visited_urls' = visited_urls
          /\ queue' = queue
          /\ fetch_count' = fetch_count]_vars

\* A normalized URL under the base URL.
UnderBase(c, self, u) == Normalized(c, self, u) /\ StartsWith(u, self.base_url)

\* C24: the file name of the stored document of a normalized URL under the
\* base URL is the file name of no other normalized URL under the base URL.
DistinctUrlsDistinctFiles ==
  (stored # <<>> /\ UnderBase(crawler, page, stored[1])) =>
    \A u \in PageUrls :
      (u # stored[1] /\ UnderBase(crawler, page, u))
        => _get_filename(crawler, page, u) # stored[2]

\* C10: the state file is absent or a complete snapshot at every instant.
StateFileWhole == state_file = NoFile \/ Loadable(state_file)

====
